---- MODULE Spec2Model ----
(***************************************************************************)
(* A model of w31r4/fucto: the OpenAI-compatible gateway                   *)
(* (src/openai_api_server.py) with its cookie pool, and the cto.new client *)
(* (src/cto_new_client.py) with its Clerk handshake.                       *)
(*                                                                         *)
(* Two specifications share the module:                                    *)
(*   SpecPool   - CookieManager, the cookie file it reads, and concurrent  *)
(*                requests calling get_cookie();                           *)
(*   SpecClient - one CtoNewClient driven through authenticate(),          *)
(*                create_chat() and stream_chat_response() against an      *)
(*                upstream that answers in every modelled way.             *)
(* Each leaves the other's variables unchanged.                            *)
(***************************************************************************)
EXTENDS Integers, Sequences, FiniteSets, TLC

(***************************************************************************)
(* Bounds of the model.                                                    *)
(***************************************************************************)
\* longest cookie file, in lines
MaxLines == 2
\* modification times a file can carry are 1..MaxMtime
MaxMtime == 2
\* concurrent requests
NumCallers == 2
\* public calls made on one client
MaxOps == 2
\* frames the upstream sends on one channel
MaxFrames == 3
\* dispenses recorded since the cookie set last changed: one more than the
\* largest pool, so that a cycle wraps round
MaxLog == MaxLines + 1

VARIABLES
    \* ---- the cookie file, cookies/cookies.txt (the environment) ----
    src,          \* [st, creds, mt]: the directory / file as the
                  \* _load_cookies run of the last step found it on disk,
                  \* creds being the cookie lines in it
    \* ---- CookieManager ----
    constructed,  \* CookieManager(COOKIES_FILE) returned (module import went through)
    cookies,      \* self._cookies
    index,        \* self._index
    mtime,        \* self._mtime: {} for None, {m} for a float
    lock,         \* self._lock: 0 when free, else the request holding it
    \* ---- the requests (chat_completions) ----
    pc,           \* where each request is
    netCalls,     \* upstream network calls each request has issued
    dispensed,    \* get_cookie() has returned a cookie to the request under
                  \* way, having advanced the cursor for it
    http,         \* the AsyncSession of that request's client (line 54):
                  \* "none" before the client is made, "open", "closed"
    \* ---- history ----
    log,          \* the dispenses since the cookie set last changed: [pos, cookie]
    lastRun,      \* how the last _load_cookies run ended
    lastObs,      \* what _load_cookies last saw of the source, when it looked
    \* ---- CtoNewClient ----
    jwt,          \* self._jwt
    wsTok,        \* self._ws_user_token
    sid,          \* self._session_id
    \* ---- the caller of the client ----
    op,           \* the public method called last: authenticate, create_chat,
                  \* stream_chat_response
    cpc,          \* the await the method is suspended at, or "idle"
    outcome,      \* how the last call ended: "ok", or the exception it raised
    calls,        \* the network calls the last call has issued, in order
    answers,      \* the kind of answer each handshake call of it got, in order
    opsDone,      \* public calls made on this client so far
    \* ---- history ----
    pre,          \* what the client held when the last call was made
    authed,       \* authenticate() has returned normally and no call failed since
    lastAuth,     \* the authenticate() run of the last call, if it made one
    prim,         \* what the primary lookup of that run found in its session
                  \* (id: that session's id; sid: the session id it stored)
    sec,          \* the membership lookup of that run: it went through (seen),
                  \* the stream token the primary's steps take from its response
                  \* (until the touch is answered)
    cand,         \* a lookup of that run offered some stream-token candidate
    refresh,      \* the _refresh_jwt attempt of that run
                  \* (these three: until the call goes on to its endpoint)
    \* ---- the conversation submit ----
    chat,         \* the POST /chat of the last call: what it carried, how it
                  \* was answered, what create_chat returned
    ids,          \* the identifiers uuid.uuid4() has produced so far
    \* ---- the streaming channel of the last call ----
    chan,         \* the WebSocket: "none", "open" or "closed"
    yielded,      \* the content strings the generator has yielded
    expect,       \* the content strings of the chat updates received
    nrecv,        \* frames received
    last,         \* the last thing the channel did: a frame or how it ended
    \* ---- the streaming response of the gateway ----
    events        \* the events stream_ai_response has produced as the
                  \* consumer of the last stream_chat_response call

poolVars == <<src, constructed, cookies, index, mtime, lock, pc, netCalls, dispensed, http,
              log, lastRun, lastObs>>

clientVars == <<jwt, wsTok, sid, op, cpc, outcome, calls, answers, opsDone,
                pre, authed, lastAuth, prim, sec, cand, refresh, chat, ids,
                chan, yielded, expect, nrecv, last, events>>

vars == <<poolVars, clientVars>>

(***************************************************************************)
(* The cookie file.  A line is a sequence of characters; readlines()' line *)
(* terminator is white space that strip() removes, so it is left out.      *)
(***************************************************************************)
Lines == { <<"a">>, <<" ", "b">>, <<"#", "a">>, <<" ">> }

SeqsUpTo(S, n) == UNION { [1..k -> S] : k \in 0..n }

Files == SeqsUpTo(Lines, MaxLines)
Mtimes == 1..MaxMtime
Callers == 1..NumCallers

Gone(st) == [st |-> st, lines |-> <<>>, mt |-> 0]

\* What _load_cookies can find: no cookies directory, no cookies.txt in it,
\* a file it may not open, or a file with lines and a modification time.
\* (A file that may not be opened is never read: its lines are left out.)
Sources ==
    { Gone("nodir"), Gone("nofile") }
    \cup [st : {"ok"}, lines : Files, mt : Mtimes]
    \cup [st : {"unreadable"}, lines : { <<>> }, mt : Mtimes]

\* str.strip()
IsSpace(c) == c = " "

RECURSIVE LStrip(_)
LStrip(s) == IF s # <<>> /\ IsSpace(Head(s)) THEN LStrip(Tail(s)) ELSE s

RECURSIVE RStrip(_)
RStrip(s) ==
    IF s # <<>> /\ IsSpace(s[Len(s)]) THEN RStrip(SubSeq(s, 1, Len(s) - 1)) ELSE s

Strip(s) == RStrip(LStrip(s))

\* the filter of line 66: line.strip() and not line.strip().startswith("#")
IsCookieLine(line) == Strip(line) # <<>> /\ Head(Strip(line)) # "#"

\* line 66: [line.strip() for line in raw_lines if ...]
RECURSIVE ParseCookies(_)
ParseCookies(lines) ==
    IF lines = <<>> THEN <<>>
    ELSE IF IsCookieLine(Head(lines))
         THEN <<Strip(Head(lines))>> \o ParseCookies(Tail(lines))
         ELSE ParseCookies(Tail(lines))

\* What a _load_cookies run has before it: the state of directory and file,
\* the file's modification time, and what lines 63-66 make of its lines.
Disk == { [st |-> s.st, creds |-> ParseCookies(s.lines), mt |-> s.mt] : s \in Sources }

(***************************************************************************)
(* CookieManager._load_cookies, lines 54-79, as a function of the manager  *)
(* (p = [cookies, index, mtime]) and the source (s in Disk).  The result   *)
(* carries the new fields, the exception that leaves the method (exc) and  *)
(* what the run saw (obs).                                                 *)
(***************************************************************************)
\* line 76, except FileNotFoundError: self._cookies = []
OnFileNotFound_Keep(p) == p.cookies
OnFileNotFound(p) == <<>>

\* line 78, except ValueError: print only
OnNoCookies_Clear(p) == <<>>
OnNoCookies(p) == p.cookies

\* line 71: self._index = 0
IndexAfterLoad_Keep(p) == p.index
IndexAfterLoad(p) == 0

\* line 60: self._mtime is not None and self._mtime == current_mtime
SameMtime(p, current) == p.mtime = {current}

LoadCookies(p, s) ==
    IF s.st \in {"nodir", "nofile"}
    THEN \* lines 56-59 raise FileNotFoundError, caught at line 75
         [cookies |-> OnFileNotFound(p), index |-> p.index, mtime |-> p.mtime,
          exc |-> "none", obs |-> "absent"]
    ELSE IF SameMtime(p, s.mt)
    THEN \* line 61
         [cookies |-> p.cookies, index |-> p.index, mtime |-> p.mtime,
          exc |-> "none", obs |-> "unchanged"]
    ELSE IF s.st = "unreadable"
    THEN \* open() at line 63 raises PermissionError: neither handler catches it
         [cookies |-> p.cookies, index |-> p.index, mtime |-> p.mtime,
          exc |-> "PermissionError", obs |-> "unreadable"]
    ELSE IF s.creds = <<>>
    THEN \* line 68 raises ValueError, caught at line 78
         [cookies |-> OnNoCookies(p), index |-> p.index, mtime |-> p.mtime,
          exc |-> "none", obs |-> "empty"]
    ELSE \* lines 70-72
         [cookies |-> s.creds, index |-> IndexAfterLoad(p),
          mtime |-> {s.mt}, exc |-> "none", obs |-> "loaded"]

\* lines 46-50: the fields before the constructor's own _load_cookies()
Fresh == [cookies |-> <<>>, index |-> 0, mtime |-> {}]

Manager == [cookies |-> cookies, index |-> index, mtime |-> mtime]

(***************************************************************************)
(* Init: the module has been imported, so cookie_manager =                 *)
(* CookieManager(COOKIES_FILE) (line 92) has run its constructor on        *)
(* whatever the source was then.                                           *)
(***************************************************************************)
InitPoolAt(s) ==
    \E res \in { LoadCookies(Fresh, s) } :
        /\ src = s
        /\ constructed = (res.exc = "none")
        /\ cookies = res.cookies
        /\ index = res.index
        /\ mtime = res.mtime
        /\ lock = 0
        /\ pc = [r \in Callers |-> "idle"]
        /\ netCalls = [r \in Callers |-> 0]
        /\ dispensed = [r \in Callers |-> FALSE]
        /\ http = [r \in Callers |-> "none"]
        /\ log = <<>>
        /\ lastRun = res.obs
        /\ lastObs = res.obs

(***************************************************************************)
(* A request, chat_completions lines 315-320 with get_cookie lines 81-89.  *)
(* The statements inside `async with self._lock` are taken one at a time:  *)
(* that is finer than the event loop interleaves them (there is no await   *)
(* inside the region), so every schedule of the program is a schedule of   *)
(* the model.                                                              *)
(***************************************************************************)
\* src after a step that has not run _load_cookies
Unseen == [st |-> "unseen", creds |-> <<>>, mt |-> 0]

\* asyncio.Lock.acquire(): taken only when nobody holds it
LockFree_Always(l) == TRUE
LockFree(l) == l = 0

\* line 316 calls get_cookie(); line 82: async with self._lock
Acquire(r) ==
    /\ UNCHANGED clientVars
    /\ UNCHANGED <<dispensed, http>>
    /\ constructed
    /\ pc[r] = "idle"
    /\ Len(log) < MaxLog
    /\ LockFree(lock)
    /\ lock' = r
    /\ pc' = [pc EXCEPT ![r] = "locked"]
    /\ src' = Unseen
    /\ UNCHANGED <<constructed, cookies, index, mtime, netCalls,
                   log, lastRun, lastObs>>

\* line 83: self._load_cookies(); an exception leaves the region, which
\* releases the lock, and reaches chat_completions' `except Exception` (500)
Load(r) ==
    /\ UNCHANGED clientVars
    /\ UNCHANGED <<dispensed, http>>
    /\ pc[r] = "locked"
    /\ \E s \in Disk :
       \E res \in { LoadCookies(Manager, s) } :
           /\ src' = s
           /\ cookies' = res.cookies
           /\ index' = res.index
           /\ mtime' = res.mtime
           /\ lastRun' = res.obs
           /\ lastObs' = IF res.obs = "unchanged" THEN lastObs ELSE res.obs
           /\ log' = IF res.obs \in {"loaded", "absent"} THEN <<>> ELSE log
           /\ IF res.exc = "none"
              THEN /\ pc' = [pc EXCEPT ![r] = "loaded"]
                   /\ lock' = lock
              ELSE /\ pc' = [pc EXCEPT ![r] = "error500"]
                   /\ lock' = 0
    /\ UNCHANGED <<constructed, netCalls>>

\* (a get_cookie that returned None instead of raising: the request goes on)
PoolEmpty_Proceeds(r) ==
    /\ UNCHANGED clientVars
    /\ UNCHANGED <<dispensed, http>>
    /\ pc[r] = "loaded"
    /\ cookies = <<>>
    /\ pc' = [pc EXCEPT ![r] = "upstream"]
    /\ netCalls' = [netCalls EXCEPT ![r] = 1]
    /\ lock' = 0
    /\ src' = Unseen
    /\ UNCHANGED <<constructed, cookies, index, mtime, log, lastRun, lastObs>>

\* lines 84-85: raise ValueError("Cookie 池为空"), which leaves the region and
\* which chat_completions turns into a 400 at lines 384-389; the client of
\* line 317 is never built
PoolEmpty(r) ==
    /\ UNCHANGED clientVars
    /\ UNCHANGED <<dispensed, http>>
    /\ pc[r] = "loaded"
    /\ cookies = <<>>
    /\ pc' = [pc EXCEPT ![r] = "pool_empty"]
    /\ lock' = 0
    /\ src' = Unseen
    /\ UNCHANGED <<constructed, cookies, index, mtime, netCalls,
                   log, lastRun, lastObs>>

\* line 87: cookie = self._cookies[self._index]
Read(r) ==
    /\ UNCHANGED clientVars
    /\ UNCHANGED <<dispensed, http>>
    /\ pc[r] = "loaded"
    /\ cookies # <<>>
    /\ index < Len(cookies)
    /\ log' = Append(log, [pos |-> index, cookie |-> cookies[index + 1]])
    /\ pc' = [pc EXCEPT ![r] = "read"]
    /\ src' = Unseen
    /\ UNCHANGED <<constructed, cookies, index, mtime, lock, netCalls,
                   lastRun, lastObs>>

\* line 88: (self._index + 1) % len(self._cookies)
NextIndex_Stay(i, n) == i
NextIndex(i, n) == (i + 1) % n

\* lines 88-89: advance the cursor, return the cookie and leave the region;
\* then, with no await in between, lines 317-320: CtoNewClient(cookie) and
\* client.authenticate() up to its first network call, the GET of line 76
Advance(r) ==
    /\ UNCHANGED clientVars
    /\ dispensed' = [dispensed EXCEPT ![r] = TRUE]
    /\ http' = [http EXCEPT ![r] = "open"]          \* line 317: __init__, line 54
    /\ pc[r] = "read"
    /\ cookies # <<>>
    /\ index' = NextIndex(index, Len(cookies))
    /\ lock' = 0
    /\ netCalls' = [netCalls EXCEPT ![r] = 1]
    /\ pc' = [pc EXCEPT ![r] = "upstream"]
    /\ src' = Unseen
    /\ UNCHANGED <<constructed, cookies, mtime, log, lastRun, lastObs>>

\* what lines 324-346 reject: no message, a last message that is not the
\* user's, a prompt of white space only
Rejections == {"no_messages", "last_not_user", "blank_prompt"}

\* authenticate() has returned (line 320) and the payload, looked at only
\* now, fails one of the tests of lines 324, 331 and 340: HTTPException 400,
\* passed on by the handler of lines 375-376
RejectsInput(r) ==
    /\ UNCHANGED clientVars
    /\ UNCHANGED <<dispensed, http>>
    /\ pc[r] = "upstream"
    /\ \E why \in Rejections : pc' = [pc EXCEPT ![r] = "rejected"]
    /\ src' = Unseen
    /\ UNCHANGED <<constructed, cookies, index, mtime, lock, netCalls,
                   log, lastRun, lastObs>>

\* the response is sent; the worker takes the next request.  Nothing on
\* the way out of chat_completions (lines 352-398) touches the client's
\* AsyncSession, and CtoNewClient has no method that closes it.
Finish(r) ==
    /\ UNCHANGED clientVars
    /\ dispensed' = [dispensed EXCEPT ![r] = FALSE]
    /\ http' = [http EXCEPT ![r] = "none"]         \* the next request has no client yet
    /\ pc[r] \in {"upstream", "rejected", "pool_empty", "error500"}
    /\ pc' = [pc EXCEPT ![r] = "idle"]
    /\ netCalls' = [netCalls EXCEPT ![r] = 0]
    /\ src' = Unseen
    /\ UNCHANGED <<constructed, cookies, index, mtime, lock,
                   log, lastRun, lastObs>>

NextPool ==
    \/ \E r \in Callers : Acquire(r)
    \/ \E r \in Callers : Load(r)
    \/ \E r \in Callers : PoolEmpty(r)
    \/ \E r \in Callers : Read(r)
    \/ \E r \in Callers : Advance(r)
    \/ \E r \in Callers : RejectsInput(r)
    \/ \E r \in Callers : Finish(r)

(***************************************************************************)
(* The client, src/cto_new_client.py.                                      *)
(*                                                                         *)
(* JSON values.  A string stands for itself; None is Python's None (what   *)
(* dict.get gives for a missing key), Absent marks a key that is not in    *)
(* the object, Null a key whose value is JSON null, Empty the string "".   *)
(***************************************************************************)
None == "None"
Absent == "absent"
Null == "null"
Empty == ""

\* d.get(k)
Get(v) == IF v = Absent THEN None ELSE v

\* bool(v)
Truthy(v) == v \notin {None, Absent, Null, Empty}

\* a or b
Or(a, b) == IF Truthy(a) THEN a ELSE b

(***************************************************************************)
(* What the upstream can answer.  A session object is                      *)
(*   id    "id"                 Absent or a string                         *)
(*   wsu   "ws_user_token"      Absent, Empty or a string                  *)
(*   wst   "wsToken"            Absent, Empty or a string                  *)
(*   lat   "last_active_token"  Absent, Null, or the "jwt" of the object   *)
(*   user  "user"               Absent, Null, or the "id" of the object    *)
(***************************************************************************)
FirstSessions ==
    [id : {Absent, "s1"}, wsu : {Absent, Empty, "w1"}, wst : {Absent, Empty, "w2"},
     lat : {Absent, Null, "j0"}, user : {Absent, Null, "u1"}]

OtherSessions ==
    [id : {"s2"}, wsu : {Absent, "w3"}, wst : {Absent}, lat : {Absent}, user : {Absent}]

SessionLists(first) ==
    { <<>> } \cup { <<s>> : s \in first }
             \cup { <<s, t>> : s \in first, t \in OtherSessions }

\* "last_active_session_id": missing, a listed session, or one not listed
Hints == {Absent, "s1", "s2", "s9"}

\* a response that carries no JSON object: the request failed or the status
\* was an error (RequestsError), the body is not JSON, or it is JSON but not
\* an object
NoObject(top) ==
    [kind : {"error", "badjson", "notobject"}, top : {top}, hint : {Absent},
     sessions : { <<>> }]

\* GET /v1/client: the client object sits under "response", under "client",
\* or under neither
ClerkResponses ==
    NoObject("neither")
    \cup [kind : {"json"}, top : {"neither"}, hint : {Absent}, sessions : { <<>> }]
    \cup [kind : {"json"}, top : {"response", "client"}, hint : Hints,
          sessions : SessionLists(FirstSessions)]

\* GET /v1/me/organization_memberships: "client" missing, null or an object.
\* Lines 123-147 read neither "response" nor "last_active_token", so the
\* answers that differ only there are left to AllMembershipResponses.
MembershipResponses ==
    NoObject(Absent)
    \cup [kind : {"json"}, top : {Absent, Null}, hint : {Absent}, sessions : { <<>> }]
    \cup [kind : {"json"}, top : {"client"}, hint : Hints,
          sessions : SessionLists({ s \in FirstSessions : s.lat = Absent })]

\* the same with every shape the primary lookup accepts: the object under
\* "response", sessions that carry "last_active_token"
AllMembershipResponses ==
    MembershipResponses
    \cup [kind : {"json"}, top : {"client", "response"}, hint : Hints,
          sessions : SessionLists({ s \in FirstSessions : s.lat # Null })]

\* POST .../touch and POST .../tokens: an object with or without "jwt"
TokenResponses(token) ==
    [kind : {"error", "badjson", "notobject"}, jwt : {Absent}]
    \cup [kind : {"json"}, jwt : {Absent, Empty, token}]

\* POST /chat: a success status, an error status (raise_for_status, line
\* 244), or a transport failure
SubmitResponses == {"ok", "status", "error"}

Client == [jwt |-> jwt, ws |-> wsTok, sid |-> sid]

\* r.json() on a response that is not an error (lines 78, 124, 182, 214)
JsonError(resp) ==
    IF resp.kind = "badjson" THEN "JSONDecodeError" ELSE "AttributeError"

\* lines 86, 134: next((s for s in sessions if s.get("id") == id), sessions[0])
SelectSession(sessions, id) ==
    IF \E i \in 1..Len(sessions) : Get(sessions[i].id) = id
    THEN sessions[CHOOSE i \in 1..Len(sessions) :
                     /\ Get(sessions[i].id) = id
                     /\ \A j \in 1..(i - 1) : Get(sessions[j].id) # id]
    ELSE sessions[1]

\* session.get("last_active_token", {}).get("jwt"), for a value that is not null
LatJwt(s) == Get(s.lat)

\* session.get("user", {}).get("id"), for a value that is not null
UserId(s) == Get(s.user)

\* lines 95-100, with the fourth operand not null
PickStreamToken_Swapped(s) ==
    Or(Get(s.wst), Or(Get(s.wsu), Or(LatJwt(s), UserId(s))))
PickStreamToken(s) ==
    Or(Get(s.wsu), Or(Get(s.wst), Or(LatJwt(s), UserId(s))))

\* the fourth operand of lines 95-100 is evaluated
ReachesUser(s) == ~Truthy(Get(s.wsu)) /\ ~Truthy(Get(s.wst)) /\ ~Truthy(LatJwt(s))

(***************************************************************************)
(* The steps of the handshake as functions from the client's fields c and  *)
(* the response to the fields afterwards, the exception raised ("none" if  *)
(* none) and, without one, what the code does next.                        *)
(***************************************************************************)
Raise(c, e) == [jwt |-> c.jwt, ws |-> c.ws, sid |-> c.sid, exc |-> e, next |-> "raise"]

Goto(c, n) == [jwt |-> c.jwt, ws |-> c.ws, sid |-> c.sid, exc |-> "none", next |-> n]

\* lines 80-81 on the parsed payload
ClerkSessions(resp) == IF resp.top = "neither" THEN <<>> ELSE resp.sessions

\* line 85
ClerkSessionId(resp) ==
    Or(Get(resp.hint), Get(ClerkSessions(resp)[1].id))

\* lines 76-102 and 107-109 of _get_clerk_info, from the response to the
\* decision whether to consult the memberships
ClerkInfo(c, resp) ==
    IF resp.kind = "error"
    THEN Raise(c, "AuthError")                          \* lines 107-109
    ELSE IF resp.kind # "json"
    THEN Raise(c, JsonError(resp))                      \* lines 78, 80
    ELSE IF ClerkSessions(resp) = <<>>
    THEN Raise(c, "AuthError")                          \* lines 82-83
    ELSE
      LET id == ClerkSessionId(resp)
          s == SelectSession(ClerkSessions(resp), id)
          c1 == [c EXCEPT !.sid = id]                   \* line 85
      IN  IF s.lat = Null
          THEN Raise(c1, "AttributeError")              \* line 94
          ELSE
            LET c2 == [c1 EXCEPT !.jwt = Or(LatJwt(s), c.jwt)]   \* line 94
            IN  IF ReachesUser(s) /\ s.user = Null
                THEN Raise(c2, "AttributeError")        \* line 99
                ELSE
                  LET c3 == [c2 EXCEPT !.ws = PickStreamToken(s)]  \* lines 95-100
                  IN  IF ~Truthy(c3.sid) \/ ~Truthy(c3.ws)         \* line 102
                      THEN Goto(c3, "memberships")
                      ELSE Goto(c3, "refresh")

\* lines 80-100 of the primary lookup applied to a membership response:
\* the stream token they take from it, None if they take none
AsPrimary(resp) ==
    IF resp.kind # "json" \/ resp.top \notin {"response", "client"} \/ resp.sessions = <<>>
    THEN None
    ELSE LET s == SelectSession(resp.sessions,
                                Or(Get(resp.hint), Get(resp.sessions[1].id)))
         IN  IF ReachesUser(s) /\ s.user = Null
             THEN None
             ELSE Or(PickStreamToken(s), None)

\* lines 126-127 on the parsed body
MembershipSessions(resp) == IF resp.top = "client" THEN resp.sessions ELSE <<>>

\* lines 122-147 of _hydrate_ws_token_from_memberships, then lines 104-105
Hydrate(c, resp) ==
    LET verdict(d) == IF ~Truthy(d.sid) \/ ~Truthy(d.ws)          \* line 104
                      THEN Raise(d, "AuthError")
                      ELSE Goto(d, "refresh")
    IN
    IF resp.kind = "error"
    THEN verdict(c)                                     \* lines 146-147
    ELSE IF resp.kind # "json"
    THEN Raise(c, JsonError(resp))                      \* lines 124, 126
    ELSE IF resp.top = Null
    THEN Raise(c, "AttributeError")                     \* line 127
    ELSE IF MembershipSessions(resp) = <<>>
    THEN verdict(c)                                     \* lines 128-129
    ELSE
      LET sessions == MembershipSessions(resp)
          c1 == IF ~Truthy(c.sid)                       \* lines 131-132
                THEN [c EXCEPT !.sid = Or(Get(resp.hint), Get(sessions[1].id))]
                ELSE c
          s == SelectSession(sessions, c1.sid)          \* line 134
          c2 == [c1 EXCEPT !.ws = Or(c.ws, Or(Get(s.wsu), Get(s.wst)))]  \* line 136
      IN  IF Truthy(c2.ws)
          THEN verdict(c2)
          ELSE IF s.user = Null
          THEN Raise(c2, "AttributeError")              \* line 138
          ELSE verdict([c2 EXCEPT !.ws = UserId(s)])    \* lines 137-138

\* lines 159-160, 193-194: the guard at the head of _refresh_jwt and of
\* _touch_session
HasSession(c) == Truthy(c.sid)

\* lines 180-189 of _touch_session
Touch_IgnoresFailure(c, resp) == Goto(c, "tokens")
Touch(c, resp) ==
    IF resp.kind = "error"
    THEN Raise(c, "AuthError")                          \* lines 187-189
    ELSE IF resp.kind # "json"
    THEN Raise(c, JsonError(resp))                      \* line 182
    ELSE IF Truthy(Get(resp.jwt))                       \* lines 183-184
    THEN Goto([c EXCEPT !.jwt = resp.jwt], "tokens")
    ELSE Goto(c, "tokens")

\* line 214: the token is stored as it came
Renewed(c, resp) == Get(resp.jwt)

\* lines 211-219 of _refresh_jwt
Tokens(c, resp) ==
    IF resp.kind = "error"
    THEN Raise(c, "AuthError")                          \* lines 217-219
    ELSE IF resp.kind # "json"
    THEN Raise(c, JsonError(resp))                      \* line 214
    ELSE LET c1 == [c EXCEPT !.jwt = Renewed(c, resp)]  \* line 214
         IN  IF ~Truthy(c1.jwt)                         \* lines 215-216
             THEN Raise(c1, "AuthError")
             ELSE Goto(c1, "done")

(***************************************************************************)
(* The client after __init__ (lines 44-58), before any call.               *)
(***************************************************************************)
NoPrim == [found |-> FALSE, seen |-> FALSE, wsu |-> None, wst |-> None, lat |-> None,
           user |-> None, chosen |-> None, id |-> None, sid |-> None]

\* no membership lookup in this run
NoSec == [seen |-> FALSE, expected |-> None]

NoRefresh == [st |-> "none", before |-> None, issued |-> "nothing"]

\* no POST /chat in this call
NoChat == [bearer |-> None, id |-> 0, resp |-> "none", returned |-> 0]

\* what uuid.uuid4() can produce (line 231): 0 stands for no identifier
ChatIds == 1..MaxOps

InitClient ==
    /\ jwt = None
    /\ wsTok = None
    /\ sid = None
    /\ op = "none"
    /\ cpc = "idle"
    /\ outcome = "none"
    /\ calls = <<>>
    /\ answers = <<>>
    /\ opsDone = 0
    /\ pre = [jwt |-> FALSE, ws |-> FALSE, authed |-> FALSE]
    /\ authed = FALSE
    /\ lastAuth = "none"
    /\ prim = NoPrim
    /\ sec = NoSec
    /\ cand = FALSE
    /\ refresh = NoRefresh
    /\ chat = NoChat
    /\ ids = {}
    /\ chan = "none"
    /\ yielded = <<>>
    /\ expect = <<>>
    /\ nrecv = 0
    /\ last = [ev |-> "none", frame |-> [type |-> "none", buf |-> Absent,
                 chat |-> Absent, content |-> Absent, state |-> Absent]]
    /\ events = <<>>

(***************************************************************************)
(* stream_ai_response (openai_api_server.py, lines 238-284), the consumer  *)
(* of stream_chat_response in a streaming response.  An event is one       *)
(* "data:" line of the response: a chunk, of which the model keeps the     *)
(* delta and the finish_reason of its only choice, or the [DONE] marker.   *)
(***************************************************************************)
Chunk(role, content, finish) ==
    [data |-> "chunk", role |-> role, content |-> content, finish |-> finish]

\* lines 244-251
RoleChunk == Chunk("assistant", Absent, None)

\* lines 254-261, for one item of the generator
ContentChunk(c) == Chunk(Absent, c, None)

\* lines 264-271
FinalChunk == Chunk(Absent, Absent, "stop")

\* lines 276-283: the message of the ApiError as content
ErrorText == "[ERROR]"
ErrorChunk == Chunk(Absent, ErrorText, "stop")

\* lines 272 and 284
Done == [data |-> "[DONE]", role |-> Absent, content |-> Absent, finish |-> Absent]

\* what stream_ai_response produces when the generator is over: lines
\* 264-272 after the loop, lines 274-284 on ApiError; any other exception
\* leaves it
Ending_NoDoneOnError(how) ==
    IF how = "ok" THEN <<FinalChunk, Done>>
    ELSE IF how = "ApiError" THEN <<ErrorChunk>>
    ELSE <<>>
Ending(how) ==
    IF how = "ok" THEN <<FinalChunk, Done>>
    ELSE IF how = "ApiError" THEN <<ErrorChunk, Done>>
    ELSE <<>>

\* the events a step of the generator that yields nothing brings about:
\* none while the generator goes on (p: where it is after the step)
Relayed(p, how) == IF p = "idle" THEN Ending(how) ELSE <<>>

\* a public method is called on a client that is not inside another call
Call(o) ==
    /\ cpc = "idle"
    /\ opsDone < MaxOps
    /\ op' = o
    /\ opsDone' = opsDone + 1
    /\ outcome' = "none"
    /\ answers' = <<>>
    /\ pre' = [jwt |-> Truthy(jwt), ws |-> Truthy(wsTok), authed |-> authed]
    /\ prim' = NoPrim
    /\ sec' = NoSec
    /\ cand' = FALSE
    /\ refresh' = NoRefresh
    /\ chan' = "none"
    /\ yielded' = <<>>
    /\ expect' = <<>>
    /\ nrecv' = 0
    /\ last' = [ev |-> "none", frame |-> [type |-> "none", buf |-> Absent,
                  chat |-> Absent, content |-> Absent, state |-> Absent]]
    \* openai_api_server.py, line 251: the role chunk is out before the
    \* generator is asked for its first item (line 253)
    /\ events' = IF o = "stream_chat_response" THEN <<RoleChunk>> ELSE <<>>

\* authenticate() up to its first await: line 223 enters _get_clerk_info,
\* which sends GET /v1/client (line 76)
BeginAuth ==
    /\ calls' = <<"clerk">>
    /\ cpc' = "clerk"
    /\ lastAuth' = "running"
    /\ chat' = NoChat
    /\ ids' = ids

\* lines 231-243 up to the POST: a new identifier (uuid4 does not repeat
\* one), the bearer header from the access token as it is now
Submit ==
    \E id \in ChatIds \ ids :
        /\ chat' = [bearer |-> jwt', id |-> id, resp |-> "none", returned |-> 0]
        /\ ids' = ids \cup {id}

\* lines 254-263 up to the connection
Connect ==
    /\ chat' = NoChat
    /\ ids' = ids

\* the call goes on without authenticate(), to its own endpoint
Skip(endpoint) ==
    /\ calls' = <<endpoint>>
    /\ cpc' = endpoint
    /\ lastAuth' = "none"
    /\ IF endpoint = "submit" THEN Submit ELSE Connect

\* lines 228, 251: the test that decides on authenticate()
NeedsAuth_Always(token) == TRUE
NeedsAuth(token) == ~Truthy(token)

\* lines 221-223
Authenticate ==
    /\ UNCHANGED poolVars
    /\ Call("authenticate")
    /\ BeginAuth
    /\ UNCHANGED <<jwt, wsTok, sid, authed>>

\* lines 228-229, or 228 and 231-243 up to the POST
CreateChat ==
    /\ UNCHANGED poolVars
    /\ UNCHANGED <<jwt, wsTok, sid, authed>>
    /\ Call("create_chat")
    /\ IF NeedsAuth(jwt) THEN BeginAuth ELSE Skip("submit")

\* lines 251-252, or 251 and 254-263 up to the connection
StreamChatResponse ==
    /\ UNCHANGED poolVars
    /\ UNCHANGED <<jwt, wsTok, sid, authed>>
    /\ Call("stream_chat_response")
    /\ IF NeedsAuth(wsTok) THEN BeginAuth ELSE Skip("connect")

\* an exception leaves the public method
Fails(e) ==
    /\ cpc' = "idle"
    /\ outcome' = e
    /\ authed' = FALSE

\* the fields as a step leaves them
Stores(res) ==
    /\ jwt' = res.jwt
    /\ wsTok' = res.ws
    /\ sid' = res.sid

\* line 224 enters _refresh_jwt: the guard of line 193, line 196 enters
\* _touch_session with the guard of line 159, then the POST of line 180
EnterRefresh(res) ==
    IF HasSession(res)
    THEN /\ calls' = Append(calls, "touch")
         /\ cpc' = "touch"
         /\ refresh' = [st |-> "running", before |-> res.jwt, issued |-> "nothing"]
         /\ UNCHANGED <<outcome, authed, lastAuth>>
    ELSE /\ Fails("AuthError")
         /\ lastAuth' = "AuthError"
         /\ UNCHANGED <<calls, refresh>>

\* what follows a step of _get_clerk_info
AfterLookup(res) ==
    IF res.exc # "none"
    THEN /\ Fails(res.exc)
         /\ lastAuth' = res.exc
         /\ UNCHANGED <<calls, refresh>>
    ELSE IF res.next = "memberships"
    THEN /\ calls' = Append(calls, "memberships")       \* line 103, line 122
         /\ cpc' = "memberships"
         /\ UNCHANGED <<outcome, authed, lastAuth, refresh>>
    ELSE EnterRefresh(res)

\* some candidate field of the session is non-empty
Offers(s) ==
    \/ Truthy(Get(s.wsu))
    \/ Truthy(Get(s.wst))
    \/ Truthy(Get(s.lat))
    \/ Truthy(Get(s.user))

\* the answer to GET /v1/client arrives: lines 77-103
ClerkResponds ==
    /\ UNCHANGED poolVars
    /\ cpc = "clerk"
    /\ \E resp \in ClerkResponses :
         \E res \in { ClerkInfo(Client, resp) } :
           /\ answers' = Append(answers, resp.kind)
           /\ Stores(res)
           /\ AfterLookup(res)
           /\ IF resp.kind = "json" /\ ClerkSessions(resp) # <<>>
              THEN LET s == SelectSession(ClerkSessions(resp), ClerkSessionId(resp))
                   IN  /\ cand' = Offers(s)
                       /\ prim' = [found |-> TRUE, seen |-> res.exc = "none",
                                   wsu |-> Get(s.wsu), wst |-> Get(s.wst),
                                   lat |-> Get(s.lat), user |-> Get(s.user),
                                   chosen |-> IF res.exc = "none" THEN res.ws ELSE None,
                                   id |-> IF res.exc = "none" THEN Get(s.id) ELSE None,
                                   sid |-> IF res.exc = "none" THEN res.sid ELSE None]
              ELSE UNCHANGED <<prim, cand>>
    /\ UNCHANGED <<events, op, opsDone, pre, sec, chat, ids, chan, yielded, expect, nrecv,
                   last>>

\* the session ids the primary lookup found are history for the step that
\* follows the lookup only
Past(p) == [p EXCEPT !.id = None, !.sid = None]

\* the answer to GET /v1/me/organization_memberships arrives: lines 123-147,
\* then 104-105
MembershipsRespondsFrom(responses) ==
    /\ UNCHANGED poolVars
    /\ cpc = "memberships"
    /\ \E resp \in responses :
         \E res \in { Hydrate(Client, resp) } :
           /\ answers' = Append(answers, resp.kind)
           /\ Stores(res)
           /\ AfterLookup(res)
           /\ sec' = [seen |-> resp.kind = "json" /\ res.exc \in {"none", "AuthError"},
                      expected |-> AsPrimary(resp)]
           /\ cand' = IF resp.kind = "json" /\ MembershipSessions(resp) # <<>>
                      THEN cand \/ Offers(SelectSession(MembershipSessions(resp),
                                                        res.sid))
                      ELSE cand
    /\ prim' = Past(prim)
    /\ UNCHANGED <<events, op, opsDone, pre, chat, ids,
                   chan, yielded, expect, nrecv, last>>

MembershipsResponds == MembershipsRespondsFrom(MembershipResponses)

\* the history of an authenticate() run is kept while it runs and, for a
\* call of authenticate() itself, until the next call; a call that goes on
\* to its own endpoint keeps only how the run ended
Forgets ==
    /\ prim' = NoPrim
    /\ sec' = NoSec
    /\ cand' = FALSE
    /\ refresh' = NoRefresh

\* authenticate() has returned (line 224): the caller gets control back, or
\* the method goes on to its own endpoint (lines 231-243, 254-263)
AuthReturns ==
    /\ lastAuth' = "ok"
    /\ authed' = TRUE
    /\ IF op = "authenticate"
       THEN /\ cpc' = "idle"
            /\ outcome' = "ok"
            /\ calls' = calls
            /\ UNCHANGED <<chat, ids>>
       ELSE LET endpoint == IF op = "create_chat" THEN "submit" ELSE "connect"
            IN  /\ cpc' = endpoint
                /\ outcome' = outcome
                /\ calls' = Append(calls, endpoint)
                /\ IF endpoint = "submit" THEN Submit ELSE Connect

\* the answer to POST .../touch arrives: lines 181-189, then the POST of
\* line 212
TouchResponds ==
    /\ UNCHANGED poolVars
    /\ cpc = "touch"
    /\ \E resp \in TokenResponses("j1") :
         \E res \in { Touch(Client, resp) } :
           /\ answers' = Append(answers, resp.kind)
           /\ Stores(res)
           /\ IF res.exc # "none"
              THEN /\ Fails(res.exc)
                   /\ lastAuth' = res.exc
                   /\ refresh' = [refresh EXCEPT !.st = "failed"]
                   /\ calls' = calls
              ELSE /\ calls' = Append(calls, "tokens")
                   /\ cpc' = "tokens"
                   /\ UNCHANGED <<outcome, authed, lastAuth, refresh>>
    /\ sec' = NoSec
    /\ prim' = Past(prim)
    /\ UNCHANGED <<events, op, opsDone, pre, cand, chat, ids,
                   chan, yielded, expect, nrecv, last>>

\* the token a renewal response carries, "nothing" if it carries no object
Issued(resp) == IF resp.kind = "json" THEN Get(resp.jwt) ELSE "nothing"

\* the answer to POST .../tokens arrives: lines 213-219
TokensResponds ==
    /\ UNCHANGED poolVars
    /\ cpc = "tokens"
    /\ \E resp \in TokenResponses("j2") :
         \E res \in { Tokens(Client, resp) } :
           /\ answers' = Append(answers, resp.kind)
           /\ Stores(res)
           /\ IF res.exc # "none"
              THEN /\ Fails(res.exc)
                   /\ lastAuth' = res.exc
                   /\ refresh' = [refresh EXCEPT !.st = "failed",
                                                 !.issued = Issued(resp)]
                   /\ calls' = calls
                   /\ sec' = sec
                   /\ UNCHANGED <<chat, ids, prim, cand>>
              ELSE /\ AuthReturns
                   /\ IF op = "authenticate"
                      THEN /\ refresh' = [refresh EXCEPT !.st = "ok",
                                                         !.issued = Issued(resp)]
                           /\ sec' = sec
                           /\ UNCHANGED <<prim, cand>>
                      ELSE Forgets
    /\ UNCHANGED <<events, op, opsDone, pre, chan, yielded, expect, nrecv, last>>

\* lines 244-247: raise_for_status, and RequestsError turned into ApiError
SubmitOutcome_Ok(resp) == "ok"
SubmitOutcome(resp) == IF resp = "ok" THEN "ok" ELSE "ApiError"

\* the answer to POST /chat arrives: lines 243-247
SubmitResponds ==
    /\ UNCHANGED poolVars
    /\ cpc = "submit"
    /\ \E resp \in SubmitResponses :
         /\ IF SubmitOutcome(resp) = "ok"
            THEN /\ cpc' = "idle"                       \* line 245
                 /\ outcome' = "ok"
                 /\ authed' = authed
                 /\ chat' = [chat EXCEPT !.resp = resp, !.returned = chat.id]
            ELSE /\ Fails(SubmitOutcome(resp))          \* lines 246-247
                 /\ chat' = [chat EXCEPT !.resp = resp]
    /\ UNCHANGED <<jwt, wsTok, sid, op, calls, answers, opsDone, pre, lastAuth, prim, sec, events,
                   cand, refresh, ids, chan, yielded, expect, nrecv, last>>

(***************************************************************************)
(* The streaming channel, lines 263-284.  A frame is what ws.recv()        *)
(* delivers, by what the loop does with it:                                *)
(*   type     "badjson"    the text is not JSON                            *)
(*            "notobject"  JSON, but not an object                         *)
(*            "update" / "state" / "other"   the object's "type"           *)
(*   buf      of an update: "buffer" Absent (or empty), not JSON           *)
(*            ("badjson"), JSON but no object ("notobject"), an object of  *)
(*            another inner type ("other"), an object of type "chat"       *)
(*   chat     of a chat buffer: "chat" Absent, Null or an object ("obj")   *)
(*   content  of a chat object: "content" Absent, Empty or a string        *)
(*   state    of a state frame: "state" Absent, Null, an object without    *)
(*            "inProgress" ("noflag"), with it false or true               *)
(***************************************************************************)
Frame(type, buf, ch, content, state) ==
    [type |-> type, buf |-> buf, chat |-> ch, content |-> content, state |-> state]

NoFrame == Frame("none", Absent, Absent, Absent, Absent)

Contents == {"Hello", " world"}

Frames ==
    { Frame(ty, Absent, Absent, Absent, Absent) : ty \in {"badjson", "notobject", "other"} }
    \cup { Frame("update", b, Absent, Absent, Absent) :
             b \in {Absent, "badjson", "notobject", "other"} }
    \cup { Frame("update", "chat", c, Absent, Absent) : c \in {Absent, Null} }
    \cup { Frame("update", "chat", "obj", x, Absent) : x \in {Absent, Empty} \cup Contents }
    \cup { Frame("state", Absent, Absent, Absent, s) :
             s \in {Absent, Null, "noflag", "false", "true"} }

\* what websockets.connect can come to (line 263)
ConnectOutcomes == {"open", "timeout", "fault"}

\* what a read can come to instead of a frame (line 266): 30 s without one,
\* ConnectionClosed, any other exception
StreamEndings == {"timeout", "closed", "fault"}

\* nothing has happened on the channel
NoEvent == [ev |-> "none", frame |-> NoFrame]

\* lines 267-276 on one frame: the content yielded (None for none) and
\* whether the loop goes on, breaks, or an exception leaves it
Step(out, next) == [out |-> out, next |-> next]

\* line 276: elif data.get("type") == "state" and not data["state"].get("inProgress")
OnState(f) ==
    IF f.state = Absent THEN Step(None, "continue")       \* KeyError, line 278
    ELSE IF f.state = Null THEN Step(None, "raise")       \* AttributeError
    ELSE IF f.state \in {"noflag", "false"} THEN Step(None, "break")
    ELSE Step(None, "continue")

\* lines 270-275: the buffer of an update frame
OnUpdate(f) ==
    IF f.buf = "badjson" THEN Step(None, "continue")      \* line 270, 278
    ELSE IF f.buf = "notobject" THEN Step(None, "raise")  \* line 271
    ELSE IF f.buf = "other" THEN Step(None, "continue")
    ELSE IF f.chat = Absent THEN Step(None, "continue")   \* line 272: {}
    ELSE IF f.chat = Null THEN Step(None, "raise")        \* line 272
    ELSE IF Truthy(Get(f.content))                        \* lines 273-274
    THEN Step(f.content, "yield")
    ELSE Step(None, "continue")

ProcessFrame(f) ==
    IF f.type = "badjson" THEN Step(None, "continue")     \* line 267, 278
    ELSE IF f.type = "notobject" THEN Step(None, "raise") \* line 269
    ELSE IF f.type = "update" /\ f.buf # Absent THEN OnUpdate(f)   \* line 269
    ELSE IF f.type = "state" THEN OnState(f)              \* line 276
    ELSE Step(None, "continue")

\* the channel is left: __aexit__ of line 263 closes it
Closes_Leaks == chan' = chan
Closes == chan' = "closed"

\* what the frames received so far should have yielded: the non-empty
\* content of every update frame with a chat buffer
Expected(f) ==
    IF f.type = "update" /\ f.buf = "chat" /\ f.chat = "obj" /\ Truthy(Get(f.content))
    THEN <<f.content>>
    ELSE <<>>

\* the generator returns: the consumer's loop ends normally
Completes ==
    /\ cpc' = "idle"
    /\ outcome' = "ok"
    /\ authed' = authed

\* lines 279-282: the ways a connection or a read ends that are not
\* errors, asyncio.TimeoutError and ConnectionClosed
Quiet_TimeoutOnly(how) == how = "timeout"
Quiet(how) == how \in {"timeout", "closed"}

\* lines 279-280: 30 s without a frame break the loop, which leaves the
\* async with and the generator
OnReadTimeout_Continue == UNCHANGED <<chan, cpc, outcome, authed>>
OnReadTimeout ==
    /\ Closes
    /\ Completes

\* websockets.connect (line 263) comes to an end
Connects ==
    /\ UNCHANGED poolVars
    /\ cpc = "connect"
    /\ \E how \in ConnectOutcomes :
         /\ last' = [ev |-> how, frame |-> NoFrame]
         /\ IF how = "open"
            THEN /\ chan' = "open"
                 /\ cpc' = "recv"                       \* lines 264-266
                 /\ UNCHANGED <<outcome, authed>>
            ELSE /\ chan' = chan
                 /\ IF Quiet(how)
                    THEN Completes                      \* lines 281-282
                    ELSE Fails("ApiError")              \* lines 283-284
    /\ events' = events \o Relayed(cpc', outcome')
    /\ UNCHANGED <<jwt, wsTok, sid, op, calls, answers, opsDone, pre, lastAuth, prim, sec,
                   cand, refresh, chat, ids, yielded, expect, nrecv>>

\* ws.recv() delivers a frame (line 266), lines 267-280 run on it
Receives ==
    /\ UNCHANGED poolVars
    /\ cpc = "recv"
    /\ nrecv < MaxFrames
    /\ \E f \in Frames :
         \E step \in { ProcessFrame(f) } :
           /\ last' = [ev |-> "frame", frame |-> f]
           /\ nrecv' = nrecv + 1
           /\ expect' = expect \o Expected(f)
           /\ IF step.next = "yield"
              THEN /\ yielded' = Append(yielded, step.out)   \* line 275
                   /\ cpc' = "yield"
                   /\ UNCHANGED <<chan, outcome, authed>>
              ELSE IF step.next = "continue"
              THEN UNCHANGED <<yielded, cpc, chan, outcome, authed>>
              ELSE IF step.next = "break"
              THEN /\ Closes                                 \* line 277
                   /\ Completes
                   /\ yielded' = yielded
              ELSE /\ Closes                                 \* lines 283-284
                   /\ Fails("ApiError")
                   /\ yielded' = yielded
           /\ events' = IF step.next = "yield"
                        THEN Append(events, ContentChunk(step.out))
                        ELSE events \o Relayed(cpc', outcome')
    /\ UNCHANGED <<jwt, wsTok, sid, op, calls, answers, opsDone, pre, lastAuth, prim, sec,
                   cand, refresh, chat, ids>>

\* ws.recv() does not deliver a frame: asyncio.TimeoutError (lines 279-280),
\* ConnectionClosed (lines 281-282) or another exception (lines 283-284)
ReadEndsBy(how) ==
    /\ UNCHANGED poolVars
    /\ cpc = "recv"
    /\ last' = [ev |-> how, frame |-> NoFrame]
    /\ IF how = "timeout"
       THEN OnReadTimeout
       ELSE /\ Closes
            /\ IF Quiet(how) THEN Completes ELSE Fails("ApiError")
    /\ events' = events \o Relayed(cpc', outcome')
    /\ UNCHANGED <<jwt, wsTok, sid, op, calls, answers, opsDone, pre, lastAuth, prim, sec,
                   cand, refresh, chat, ids, yielded, expect, nrecv>>

ReadEnds == \E how \in StreamEndings : ReadEndsBy(how)

\* the consumer asks for the next item: the generator goes on after the
\* yield of line 275, into the next read
Resumes ==
    /\ UNCHANGED poolVars
    /\ cpc = "yield"
    /\ cpc' = "recv"
    /\ UNCHANGED <<jwt, wsTok, sid, op, calls, answers, opsDone, pre, lastAuth, prim, sec, events,
                   cand, refresh, chat, ids, outcome, authed, chan, yielded,
                   expect, nrecv, last>>

\* the consumer leaves its loop and drops the generator, which stays
\* suspended at the yield of line 275 inside the async with of line 263
Abandons ==
    /\ UNCHANGED poolVars
    /\ cpc = "yield"
    /\ cpc' = "abandoned"
    /\ outcome' = "abandoned"
    /\ UNCHANGED <<jwt, wsTok, sid, op, calls, answers, opsDone, pre, lastAuth, prim, sec, events,
                   cand, refresh, chat, ids, authed, chan, yielded, expect,
                   nrecv, last>>

\* the dropped generator is closed (aclose() by the event loop's hook for
\* unreferenced async generators): GeneratorExit is raised at the yield,
\* passes the except clauses of lines 277-284 and leaves the async with
Finalizes ==
    /\ UNCHANGED poolVars
    /\ cpc = "abandoned"
    /\ cpc' = "idle"
    /\ Closes
    /\ UNCHANGED <<jwt, wsTok, sid, op, calls, answers, opsDone, pre, lastAuth, prim, sec, events,
                   cand, refresh, chat, ids, authed, outcome, yielded, expect,
                   nrecv, last>>

NextClient ==
    \/ Authenticate
    \/ CreateChat
    \/ StreamChatResponse
    \/ ClerkResponds
    \/ MembershipsResponds
    \/ TouchResponds
    \/ TokensResponds
    \/ SubmitResponds
    \/ Connects
    \/ Receives
    \/ ReadEnds
    \/ Resumes
    \/ Abandons
    \/ Finalizes

\* the pool the client's cookie came from: one cookie, loaded at import
OneCookie == [st |-> "ok", creds |-> << <<"a">> >>, mt |-> 1]

\* one client, made for a request that has taken its cookie from the pool
InitOneClient == InitPoolAt(OneCookie) /\ InitClient

SpecClient == InitOneClient /\ [][NextClient]_vars

(***************************************************************************)
(* The identity lookups alone: authenticate() up to the end of             *)
(* _get_clerk_info, the membership lookup answering in every shape the     *)
(* primary lookup accepts.                                                 *)
(***************************************************************************)
NextLookup ==
    \/ Authenticate
    \/ ClerkResponds
    \/ MembershipsRespondsFrom(AllMembershipResponses)

SpecLookup == InitOneClient /\ [][NextLookup]_vars

(***************************************************************************)
(* The relay alone: a client on which authenticate() has just succeeded    *)
(* (a state of SpecClient), then only streams.                             *)
(***************************************************************************)
InitStream ==
    /\ InitPoolAt(OneCookie)
    /\ jwt = "j2"
    /\ wsTok = "u1"
    /\ sid = "s1"
    /\ op = "authenticate"
    /\ cpc = "idle"
    /\ outcome = "ok"
    /\ calls = <<"clerk", "touch", "tokens">>
    /\ answers = <<"json", "json", "json">>
    /\ opsDone = 1
    /\ pre = [jwt |-> FALSE, ws |-> FALSE, authed |-> FALSE]
    /\ authed = TRUE
    /\ lastAuth = "ok"
    /\ prim = [NoPrim EXCEPT !.found = TRUE, !.seen = TRUE, !.user = "u1",
                             !.chosen = "u1"]
    /\ sec = NoSec
    /\ cand = TRUE
    /\ refresh = [st |-> "ok", before |-> None, issued |-> "j2"]
    /\ chat = NoChat
    /\ ids = {}
    /\ chan = "none"
    /\ yielded = <<>>
    /\ expect = <<>>
    /\ nrecv = 0
    /\ last = NoEvent
    /\ events = <<>>

NextStream ==
    \/ StreamChatResponse
    \/ Connects
    \/ Receives
    \/ ReadEnds
    \/ Resumes
    \/ Abandons
    \/ Finalizes

SpecStream == InitStream /\ [][NextStream]_vars

\* what keeps a stream moving: the connection attempt ends (open_timeout of
\* websockets.connect), the 30 s timer of line 266 fires when nothing else
\* ends the read, the consumer either asks for the next item or drops the
\* generator, and the event loop closes a dropped generator.  Nothing is
\* assumed of the upstream: it may send frames or close, or stay silent.
FairStream ==
    /\ SpecStream
    /\ WF_vars(Connects)
    /\ WF_vars(ReadEndsBy("timeout"))
    /\ WF_vars(Resumes \/ Abandons)
    /\ WF_vars(Finalizes)

\* the gateway with its pool, every client untouched
InitPool == (\E s \in Disk : InitPoolAt(s)) /\ InitClient

SpecPool == InitPool /\ [][NextPool]_vars

(***************************************************************************)
(* The claims about the cookie pool, checked under SpecPool.               *)
(***************************************************************************)
InRegion(r) == pc[r] \in {"locked", "loaded", "read"}

\* a step in which request r runs _load_cookies (line 83)
LoadStep(r) == pc[r] = "locked" /\ pc'[r] # "locked"

\* how often credential c is dispensed by the first n of successive calls
\* on pool cs, starting at index 0
Sequential(cs, n, c) == Cardinality({ i \in 1..n : cs[((i - 1) % Len(cs)) + 1] = c })

\* C1: with a pool of K >= 1 cookies, the i-th get_cookie() since the set was
\* last loaded (i from 0) reads index i mod K and returns the cookie there:
\* dispensing starts at index 0, goes round-robin, and after N calls every
\* index has been dispensed floor(N/K) or ceil(N/K) times.
C1_RoundRobin ==
    LET K == Len(cookies)
        N == Len(log)
    IN  /\ N > 0 => K >= 1
        /\ \A i \in 1..N :
              /\ log[i].pos = (i - 1) % K
              /\ log[i].cookie = cookies[((i - 1) % K) + 1]
        /\ \A j \in 0..(K - 1) :
              Cardinality({ i \in 1..N : log[i].pos = j })
                  \in { N \div K, (N + K - 1) \div K }

\* C1 witness: a pool of two different cookies has been dispensed three
\* times, so the cycle has wrapped round.
C1_Witness ==
    /\ Len(cookies) = 2
    /\ cookies[1] # cookies[2]
    /\ Len(log) = 3

\* C2: the reload check and the read-then-advance of one get_cookie() are one
\* atomic region: at most one request is inside it and it holds the lock; no
\* two successive reads see the same cursor position (pool of two or more);
\* and the calls made since the last load dispensed the same multiset of
\* cookies as that many sequential calls would.
C2_AtomicDispense ==
    /\ \A r1, r2 \in Callers : InRegion(r1) /\ InRegion(r2) => r1 = r2
    /\ \A r \in Callers : InRegion(r) => lock = r
    /\ (\A r \in Callers : ~InRegion(r)) => lock = 0
    /\ \A i \in 1..(Len(log) - 1) :
          Len(cookies) >= 2 => log[i].pos # log[i + 1].pos
    /\ \A c \in { log[i].cookie : i \in 1..Len(log) } :
          Cardinality({ i \in 1..Len(log) : log[i].cookie = c })
              = Sequential(cookies, Len(log), c)

\* C2 witness: one request is between its read and its advance while another
\* has already been served from the same load.
C2_Witness ==
    \E r1, r2 \in Callers :
        /\ r1 # r2
        /\ pc[r1] = "read"
        /\ pc[r2] = "upstream"
        /\ Len(log) = 2
        /\ Len(cookies) = 2

\* C3 (as claimed): a reload that fails to read the source (directory or file
\* missing, file unreadable, no cookie line in the file) leaves the loaded set
\* exactly as it was and raises nothing to the caller.
C3_FailedReloadKeepsSet ==
    [][\A r \in Callers :
        (LoadStep(r) /\ lastRun' \in {"absent", "unreadable", "empty"})
            => (cookies' = cookies /\ pc'[r] # "error500")]_vars

\* C4: with no cookies loaded get_cookie() fails with the pool-empty error
\* and leaves the cursor where it was, and the request that asked has made no
\* upstream network call.
C4_PoolEmpty ==
    /\ [](\A r \in Callers : pc[r] = "pool_empty" => netCalls[r] = 0)
    /\ [][\A r \in Callers :
            (pc[r] = "loaded" /\ cookies = <<>> /\ pc'[r] # pc[r])
                => (pc'[r] = "pool_empty" /\ index' = index /\ netCalls'[r] = 0)]_vars

\* C4 witness: a request has been refused because the pool is empty.
C4_Witness ==
    \E r \in Callers : pc[r] = "pool_empty" /\ cookies = <<>> /\ lock = 0

Count(e) == Cardinality({ i \in 1..Len(calls) : calls[i] = e })

\* the last public call has run authenticate(): its first act is the
\* identity lookup of line 76
RanAuth == Count("clerk") > 0

\* the authenticate() run of the last public call has ended
AuthEnded == lastAuth \notin {"none", "running"}

\* C6: authenticate() is idempotent: an authenticate() called after one that
\* succeeded, with no failure in between, issues no network call and leaves
\* the session (session id, access token, stream token) as it was.
C6_SecondAuthenticateNoop ==
    /\ []((op = "authenticate" /\ pre.authed) => calls = <<>>)
    /\ [][(op' = "authenticate" /\ pre'.authed)
             => UNCHANGED <<jwt, wsTok, sid>>]_vars

\* C7: create_chat() runs authenticate() exactly when the client held no
\* access token at the call, stream_chat_response() exactly when it held no
\* stream token; one call runs authenticate() at most once; and a call that
\* failed with ApiError at the submit or on the stream made that failing
\* call once, as its last network call, with no authenticate() after it.
C7_LazyAuth ==
    /\ op = "create_chat" => (RanAuth <=> ~pre.jwt)
    /\ op = "stream_chat_response" => (RanAuth <=> ~pre.ws)
    /\ Count("clerk") <= 1
    /\ \A e \in {"submit", "connect"} :
         /\ Count(e) <= 1
         /\ Count(e) = 1 => calls[Len(calls)] = e
    /\ outcome = "ApiError" =>
         /\ op \in {"create_chat", "stream_chat_response"}
         /\ Count(IF op = "create_chat" THEN "submit" ELSE "connect") = 1

\* create_chat() with a token already held fails at the submit: no
\* authenticate() before or after, one submit
C7_Witness ==
    /\ op = "create_chat"
    /\ pre.jwt
    /\ outcome = "ApiError"
    /\ calls = <<"submit">>

\* C8: when authenticate() has returned normally the client holds a
\* non-empty session id, access token and stream token; a handshake whose
\* lookups offered no stream-token candidate, or whose renewal returned an
\* empty token, has ended in AuthError.
C8_HandshakeOutcome ==
    /\ lastAuth = "ok" => (Truthy(sid) /\ Truthy(jwt) /\ Truthy(wsTok))
    /\ (AuthEnded /\ prim.found /\ ~cand) => lastAuth = "AuthError"
    /\ (AuthEnded /\ ~Truthy(refresh.issued)) => lastAuth = "AuthError"

\* the part of C8 about a normal return, on its own: it holds
C8_SuccessHoldsAll ==
    /\ lastAuth = "ok" => (Truthy(sid) /\ Truthy(jwt) /\ Truthy(wsTok))
    /\ (AuthEnded /\ prim.found /\ ~cand) => lastAuth # "ok"
    /\ (AuthEnded /\ ~Truthy(refresh.issued)) => lastAuth = "AuthError"

\* C9: once the primary lookup has chosen the stream token from its selected
\* session, the chosen value is the first non-empty one of ws_user_token,
\* wsToken, last_active_token.jwt, user.id, in that order; with none of them
\* non-empty nothing is chosen; and a chosen token is the one the client
\* goes on to hold.
C9_StreamTokenPriority ==
    prim.seen =>
        /\ Truthy(prim.wsu) => prim.chosen = prim.wsu
        /\ (~Truthy(prim.wsu) /\ Truthy(prim.wst)) => prim.chosen = prim.wst
        /\ (~Truthy(prim.wsu) /\ ~Truthy(prim.wst) /\ Truthy(prim.lat))
               => prim.chosen = prim.lat
        /\ (~Truthy(prim.wsu) /\ ~Truthy(prim.wst) /\ ~Truthy(prim.lat)
              /\ Truthy(prim.user))
               => prim.chosen = prim.user
        /\ (~Truthy(prim.wsu) /\ ~Truthy(prim.wst) /\ ~Truthy(prim.lat)
              /\ ~Truthy(prim.user))
               => ~Truthy(prim.chosen)
        /\ Truthy(prim.chosen) => wsTok = prim.chosen

\* the first field is empty, the second and the third are both there, and
\* the second is the one taken
C9_Witness ==
    /\ prim.seen
    /\ prim.wsu = Empty
    /\ prim.wst = "w2"
    /\ prim.lat = "j0"
    /\ wsTok = "w2"
    /\ lastAuth = "ok"

\* C10: after a refresh attempt the access token is the one held before the
\* attempt if the attempt failed, and the newly issued one if it succeeded;
\* a failed attempt never leaves the client without an access token where
\* it held one before.
C10_RenewalAtomic ==
    /\ (refresh.st = "failed" /\ Truthy(refresh.before)) => jwt = refresh.before
    /\ refresh.st = "ok" => (jwt = refresh.issued /\ Truthy(jwt))

StreamOver ==
    /\ op = "stream_chat_response"
    /\ cpc = "idle"
    /\ outcome \in {"ok", "ApiError"}

\* C12: a stream yields exactly the non-empty chat contents it has
\* received, once each and in arrival order, and the only frame on which it
\* ends is a state frame with inProgress false, at which it completes
\* without error: every frame before that one is processed, nothing after it
C12_TerminalFrame ==
    /\ op = "stream_chat_response" => yielded = expect
    /\ (StreamOver /\ last.ev = "frame") =>
          /\ last.frame.type = "state"
          /\ last.frame.state = "false"
          /\ outcome = "ok"

\* the same on well-formed input: contents, other updates and state frames
\* that carry the flag
WellFormed(f) ==
    \/ f.type = "other"
    \/ f.type = "update" /\ f.buf = "other"
    \/ f.type = "update" /\ f.buf = "chat" /\ f.chat = "obj"
    \/ f.type = "state" /\ f.state \in {"false", "true"}

C12_OnWellFormed ==
    (StreamOver /\ last.ev = "frame" /\ WellFormed(last.frame)) =>
        /\ last.frame.state = "false"
        /\ outcome = "ok"
        /\ yielded = expect

C12_HelloWorld ==
    /\ StreamOver
    /\ last.frame.state = "false"
    /\ outcome = "ok"
    /\ yielded = <<"Hello", " world">>

\* the frames that fail to parse or lack an expected field: invalid JSON
\* text, JSON that is not an object, an update whose buffer is not a
\* serialized object, a state frame without a state object or without the
\* inProgress flag
Malformed(f) ==
    \/ f.type \in {"badjson", "notobject"}
    \/ f.type = "update" /\ f.buf \in {"badjson", "notobject"}
    \/ f.type = "state" /\ f.state \in {Absent, Null, "noflag"}

\* a step that receives a frame
Received == cpc = "recv" /\ nrecv' = nrecv + 1

\* C13: a malformed frame is skipped: receiving it yields nothing, does not
\* end the stream and does not raise, and the loop goes on to the next read
C13_MalformedSkipped ==
    [][(Received /\ Malformed(last'.frame)) =>
          /\ cpc' = "recv"
          /\ chan' = "open"
          /\ UNCHANGED <<yielded, outcome>>]_vars

\* the three shapes the code does skip
C13_SkippedShapes ==
    [][(Received /\ (\/ last'.frame.type = "badjson"
                     \/ last'.frame.buf = "badjson"
                     \/ last'.frame.type = "state" /\ last'.frame.state = Absent)) =>
          /\ cpc' = "recv"
          /\ UNCHANGED <<yielded, outcome, chan>>]_vars

\* a stream_chat_response() call that ended without a frame in hand: on the
\* read timeout, on closure by the peer, on a timeout of the connection
QuietEnd == StreamOver /\ last.ev \in {"timeout", "closed"}

\* C14: a stream that ends on a read timeout, on closure by the peer or on
\* a transport timeout completes without error, having yielded the
\* increments received so far, none if no frame arrived; the ending step
\* yields nothing more
C14_QuietEnd ==
    /\ [](QuietEnd => (outcome = "ok" /\ yielded = expect))
    /\ [](QuietEnd /\ nrecv = 0 => yielded = <<>>)
    /\ [][(last'.ev \in {"timeout", "closed"} /\ last' # last) =>
             (cpc' = "idle" /\ outcome' = "ok" /\ yielded' = yielded)]_vars

C14_Witness ==
    /\ QuietEnd
    /\ last.ev = "closed"
    /\ outcome = "ok"
    /\ yielded = <<"Hello", " world">>

C14_WitnessSilent ==
    /\ QuietEnd
    /\ last.ev = "timeout"
    /\ chan = "closed"
    /\ nrecv = 0
    /\ outcome = "ok"
    /\ yielded = <<>>

\* C15: a transport failure that is neither closure nor timeout, at the
\* connection or in a read, ends the stream in ApiError, and a stream ends
\* in ApiError only on such a failure: never on a closure, a timeout or a
\* frame
C15_ReportedFailure ==
    /\ (StreamOver /\ last.ev = "fault") => outcome = "ApiError"
    /\ (StreamOver /\ outcome = "ApiError") => last.ev = "fault"

\* the half that holds: failures are reported, closures and timeouts are not
C15_FaultsReported ==
    /\ (StreamOver /\ last.ev = "fault") => outcome = "ApiError"
    /\ (StreamOver /\ last.ev \in {"timeout", "closed"}) => outcome # "ApiError"

C16_WitnessError ==
    /\ StreamOver
    /\ outcome = "ApiError"
    /\ last.ev = "fault"
    /\ nrecv = 1
    /\ chan = "closed"

\* a stream_chat_response() call is under way, past its authenticate()
Streaming == cpc \in {"connect", "recv", "yield", "abandoned"}

\* C17: every stream terminates: whatever frames the upstream sends, and
\* if it sends none and never closes, a stream under way comes to its end,
\* on a terminal state frame, a closure, a read timeout or ApiError
C17_StreamTerminates ==
    /\ Streaming ~> (cpc = "idle")
    /\ [][(Streaming /\ cpc' = "idle") =>
            \/ outcome' \in {"ApiError", "abandoned"}
            \/ outcome' = "ok" /\ last'.ev \in {"frame", "timeout", "closed"}]_vars

\* a channel that fell silent after two frames
C17_Witness ==
    /\ StreamOver
    /\ last.ev = "timeout"
    /\ nrecv = 2
    /\ outcome = "ok"

(***************************************************************************)
(* More claims about the cookie pool, checked under SpecPool.              *)
(***************************************************************************)
\* a step in which request r runs _load_cookies and the run takes a
\* modification time from the file that differs from the recorded one
DifferentMarker(r) ==
    /\ LoadStep(r)
    /\ src'.st \in {"ok", "unreadable"}
    /\ mtime # {src'.mt}

\* C18: a reload that observes the recorded modification time leaves the
\* set and the cursor as they were, and the set changes only in a reload
\* that observes a different modification time
C18_ReloadOnlyOnChange ==
    /\ [][\A r \in Callers :
            (LoadStep(r) /\ lastRun' = "unchanged")
                => (cookies' = cookies /\ index' = index)]_vars
    /\ [][cookies' # cookies => \E r \in Callers : DifferentMarker(r)]_vars

\* the half that holds, and what does hold of the other half: the set
\* changes only in a reload, and never in one that observes the recorded time
C18_SameMarkerNoChange ==
    /\ [][\A r \in Callers :
            (LoadStep(r) /\ lastRun' = "unchanged")
                => (cookies' = cookies /\ index' = index /\ mtime' = mtime)]_vars
    /\ [][cookies' # cookies =>
            \E r \in Callers : LoadStep(r) /\ lastRun' \in {"loaded", "absent"}]_vars
    /\ [][\A r \in Callers :
            (LoadStep(r) /\ lastRun' = "loaded") => DifferentMarker(r)]_vars

\* C19: every reload that replaces the set resets the cursor to 0, and
\* whenever the set is non-empty the cursor is a valid index into it
C19_CursorValid ==
    /\ [](cookies # <<>> => (index >= 0 /\ index < Len(cookies)))
    /\ [][cookies' # cookies => index' = 0]_vars

\* what holds: the cursor is valid whenever there is a set, every reload
\* that installs a set read from the file resets it, and the read of line 87
\* is inside the set
C19_NeverOutside ==
    /\ [](cookies # <<>> => (index >= 0 /\ index < Len(cookies)))
    /\ [](\A i \in 1..Len(log) : log[i].pos < Len(cookies))
    /\ [][\A r \in Callers : (LoadStep(r) /\ lastRun' = "loaded") => index' = 0]_vars

(***************************************************************************)
(* The order of the handshake, checked under SpecClient.                   *)
(***************************************************************************)
\* the network calls of the authenticate() run of the last call
IsHandshakeCall(e) == e \in {"clerk", "memberships", "touch", "tokens"}

HandshakeCalls == SelectSeq(calls, IsHandshakeCall)

\* the two orders in which a run issues its calls
Direct == <<"clerk", "touch", "tokens">>

ViaMemberships == <<"clerk", "memberships", "touch", "tokens">>

IsPrefix(s, t) == Len(s) <= Len(t) /\ s = SubSeq(t, 1, Len(s))

\* C20: the calls of one authenticate() run are, in this order, the identity
\* lookup, the membership lookup (issued exactly when the session id or the
\* stream token is missing after the identity lookup), the touch and the
\* renewal, each at most once; and no call is issued after one that failed:
\* every call but the last got an answer that was not an error, and once the
\* run has failed it issues nothing more
C20_HandshakeOrder ==
    /\ [](IsPrefix(HandshakeCalls, Direct) \/ IsPrefix(HandshakeCalls, ViaMemberships))
    /\ [](\A e \in {"clerk", "memberships", "touch", "tokens"} : Count(e) <= 1)
    /\ [](Len(answers) <= Len(HandshakeCalls))
    /\ [](\A i \in 1..Len(answers) : i < Len(HandshakeCalls) => answers[i] = "json")
    /\ [][(cpc = "clerk" /\ cpc' = "memberships") =>
             (~Truthy(sid') \/ ~Truthy(wsTok'))]_vars
    /\ [][(cpc = "clerk" /\ cpc' = "touch") =>
             (Truthy(sid') /\ Truthy(wsTok'))]_vars
    /\ [][(opsDone' = opsDone /\ calls' # calls) =>
             /\ outcome = "none" /\ outcome' = "none"
             /\ Len(calls') = Len(calls) + 1
             /\ Len(answers') = Len(HandshakeCalls)]_vars

\* a run that consulted the memberships and went through to the renewal
C20_Witness ==
    /\ op = "authenticate"
    /\ lastAuth = "ok"
    /\ calls = ViaMemberships
    /\ answers = <<"json", "json", "json", "json">>

\* a run whose touch failed
C20_WitnessFailedTouch ==
    /\ lastAuth = "AuthError"
    /\ calls = <<"clerk", "touch">>
    /\ answers = <<"json", "error">>

(***************************************************************************)
(* More claims about the handshake, checked under SpecClient.              *)
(***************************************************************************)
\* C22: whatever the upstream answers, an authenticate() run that has ended
\* has returned normally or failed with AuthError
C22_OnlyAuthError ==
    AuthEnded => lastAuth \in {"ok", "AuthError"}

\* what does hold: a request that failed or met an error status ends the
\* run in AuthError
C22_ErrorAnswersAreAuthError ==
    (AuthEnded /\ answers # <<>> /\ answers[Len(answers)] = "error")
        => lastAuth = "AuthError"

\* the authenticate() run of the last call failed, and the next public call
\* is made now
CallAfterFailedAuth ==
    /\ AuthEnded
    /\ lastAuth # "ok"
    /\ opsDone' = opsDone + 1

\* C24: a failed authenticate() leaves the client unauthenticated: the
\* create_chat() or stream_chat_response() called next on it runs
\* authenticate() first, and does not go to its own endpoint with a token
\* that the failed handshake left behind
C24_FailedAuthLeavesUnauthenticated ==
    [][(CallAfterFailedAuth /\ op' \in {"create_chat", "stream_chat_response"})
          => (cpc' = "clerk" /\ calls' = <<"clerk">>)]_vars

\* C25: after an identity lookup that went through, the session id the
\* client has stored is the id of the session the lookup selected, the one
\* it took the access token and the stream token from, also when the
\* last-active hint names a session that is not in the list
C25_SessionIdOfSelected ==
    (prim.seen /\ Truthy(prim.sid) /\ Truthy(prim.chosen)) => prim.sid = prim.id

(***************************************************************************)
(* The membership lookup against the primary one, checked under SpecLookup.*)
(***************************************************************************)
\* the primary lookup went through and took no stream token, and the
\* membership lookup has gone through after it
SecondaryDone == prim.seen /\ ~Truthy(prim.chosen) /\ sec.seen

\* C21: when the primary lookup yields no stream token, the membership
\* lookup takes from its response the stream token that the primary's steps
\* take from it: same top-level shapes, same session selection, same order
\* of the four token fields; and none where they take none
C21_SecondaryRepeatsPrimary ==
    SecondaryDone =>
        IF Truthy(sec.expected) THEN wsTok = sec.expected ELSE ~Truthy(wsTok)

\* what holds: a token the membership lookup takes is never the access
\* token of the session, which is the third candidate of the primary lookup
C21_NoActiveToken ==
    SecondaryDone => wsTok # "j0"

(***************************************************************************)
(* More claims about the cookie pool and the requests, under SpecPool.     *)
(***************************************************************************)
\* a step in which request r runs _load_cookies on a source that is there
\* and holds a cookie line, after the pool had last seen it absent or
\* without one
Corrected(r) ==
    /\ LoadStep(r)
    /\ lastObs \in {"absent", "empty"}
    /\ src'.st = "ok"
    /\ src'.creds # <<>>

\* C27: once the source is corrected after it was absent or empty, the
\* next get_cookie() loads it, whatever its modification time, and goes on
\* to dispense from the corrected set, starting at its first cookie
C27_ReloadsCorrectedSource ==
    [][\A r \in Callers :
         Corrected(r) => /\ cookies' = src'.creds
                         /\ index' = 0
                         /\ pc'[r] = "loaded"
                         /\ lastObs' = "loaded"]_vars

\* what holds: a corrected source whose modification time differs from the
\* recorded one, or a pool that never loaded a set, is loaded at once
C27_ReloadsOnNewMtime ==
    [][\A r \in Callers :
         (Corrected(r) /\ mtime # {src'.mt})
             => (cookies' = src'.creds /\ index' = 0 /\ pc'[r] = "loaded")]_vars

\* C26: a request rejected by input validation (no message, last message
\* not the user's, blank prompt) has had no effect on shared or upstream
\* state: the cursor was not advanced for it and it has issued no upstream
\* network call
C26_RejectedHasNoEffect ==
    \A r \in Callers :
        pc[r] = "rejected" => (~dispensed[r] /\ netCalls[r] = 0)

\* what holds instead: every rejected request has taken a cookie and has
\* been through the handshake
C26_RejectedAfterHandshake ==
    \A r \in Callers :
        pc[r] = "rejected" => (dispensed[r] /\ netCalls[r] >= 1 /\ http[r] = "open")

\* C28: the HTTP session of a request's client is closed by the time the
\* request finishes, on every outcome
C28_SessionReleased ==
    [][\A r \in Callers :
         (pc[r] # "idle" /\ pc'[r] = "idle") => http[r] # "open"]_vars

\* what holds: a request that ends without a client (empty pool, failed
\* reload) leaves no session behind, and a session once opened is open when
\* the request ends
C28_OpenToTheEnd ==
    /\ [](\A r \in Callers : pc[r] \in {"pool_empty", "error500"} => http[r] = "none")
    /\ [](\A r \in Callers : pc[r] \in {"upstream", "rejected"} => http[r] = "open")

(***************************************************************************)
(* The streaming response of the gateway                                   *)
(***************************************************************************)
\* positions of the events of the response that satisfy a test
StopEvents == { i \in 1..Len(events) : events[i].finish = "stop" }
DoneEvents == { i \in 1..Len(events) : events[i].data = "[DONE]" }

\* C23: a streaming response is one role event, then one content event for
\* each increment the relay has delivered, in arrival order, and, once the
\* relay is over, exactly one event with finish_reason "stop" followed by
\* exactly one "[DONE]" marker, which is the last event; when the relay has
\* failed with ApiError the content events already out are still there and
\* the stop event carries the error text
C23_EventOrder ==
    op = "stream_chat_response" =>
        LET n == Len(yielded) IN
        /\ Len(events) >= n + 1
        /\ events[1] = RoleChunk
        /\ \A i \in 1..n : events[i + 1] = ContentChunk(yielded[i])
        /\ IF StreamOver
           THEN /\ Len(events) = n + 3
                /\ StopEvents = {n + 2}
                /\ DoneEvents = {n + 3}
                /\ events[n + 2].data = "chunk"
                /\ events[n + 2].content =
                       IF outcome = "ApiError" THEN ErrorText ELSE Absent
           ELSE /\ Len(events) = n + 1
                /\ StopEvents = {}
                /\ DoneEvents = {}

\* a relay fails with ApiError after an increment has gone out
C23_FailsMidStream ==
    /\ StreamOver
    /\ outcome = "ApiError"
    /\ Len(yielded) >= 1
    /\ events = <<RoleChunk, ContentChunk(yielded[1])>>
                    \o [i \in 1..(Len(yielded) - 1) |-> ContentChunk(yielded[i + 1])]
                    \o <<ErrorChunk, Done>>

====
